---- MODULE Spec2Model ----
(***************************************************************************)
(* Model of src/app.py: InventoryManager, an in-memory index (items) and a *)
(* low-stock heap (low_stock_heap) kept next to a SQLite store (tables     *)
(* items and settings).                                                    *)
(*                                                                         *)
(* Three specifications over the same state:                               *)
(*   Spec       requests served one at a time; every action is one whole  *)
(*              method call, including the case where a store call raises  *)
(*              (at most MaxFaults times in a run).                        *)
(*   SpecOk     as Spec, but no store call ever raises.                    *)
(*   ThreadSpec requests served by NumThreads threads, one statement at a  *)
(*              time, MaxRequests requests in all, on a fresh database.    *)
(* Names are sequences of code points, so that Python's string order and   *)
(* str()/int()/lower() are computed rather than assumed.                   *)
(***************************************************************************)
EXTENDS Integers, Sequences, FiniteSets, TLC

(* ------------------------------ bounds -------------------------------- *)
NumNames == 2
QtySpread == 1
MaxPrice == 2
MaxFaults == 1
NumThreads == 2
MaxRequests == 3

(* -------------------------- program constants ------------------------- *)
DefaultThreshold == 10

(* "bolt", "Nut", "BO", "nu" as code points *)
NameList == << <<98, 111, 108, 116>>, <<78, 117, 116>>, <<66, 79>>, <<110, 117>> >>
Names == {NameList[i] : i \in 1..NumNames}
Quantities == (DefaultThreshold - QtySpread)..(DefaultThreshold + QtySpread)
Thresholds == DefaultThreshold..(DefaultThreshold + QtySpread)
Prices == 1..MaxPrice

(* the query strings "", "bo", "NU", "t" *)
Queries == { <<>>, <<98, 111>>, <<78, 85>>, <<116>> }

(* Optional argument: None or a value *)
None == <<>>
Some(v) == <<v>>
OptQuantities == {None} \cup {Some(q) : q \in Quantities}
OptPrices == {None} \cup {Some(p) : p \in Prices}

(* ------------------------- Python primitives -------------------------- *)
RECURSIVE Digits(_)
Digits(n) == IF n < 10 THEN <<48 + n>> ELSE Append(Digits(n \div 10), 48 + (n % 10))

(* str(threshold) *)
str(n) == IF n < 0 THEN <<45>> \o Digits(0 - n) ELSE Digits(n)

RECURSIVE ParseDigits(_, _)
ParseDigits(s, acc) ==
    IF s = <<>> THEN acc ELSE ParseDigits(Tail(s), 10 * acc + (Head(s) - 48))

(* int(threshold_row[0]) *)
int(s) == IF s # <<>> /\ Head(s) = 45 THEN 0 - ParseDigits(Tail(s), 0) ELSE ParseDigits(s, 0)

(* Python's str < str: by code point, a proper prefix is smaller *)
RECURSIVE StrLess(_, _)
StrLess(s, t) ==
    IF t = <<>> THEN FALSE
    ELSE IF s = <<>> THEN TRUE
    ELSE IF Head(s) # Head(t) THEN Head(s) < Head(t)
    ELSE StrLess(Tail(s), Tail(t))

(* Python's tuple order on (quantity, name) *)
EntryLess(e, f) == e[1] < f[1] \/ (e[1] = f[1] /\ StrLess(e[2], f[2]))

(* A heapq list is kept as the ascending sequence of its entries: heappop   *)
(* returns the least entry and equal entries are indistinguishable, so the  *)
(* array layout does not matter.                                            *)
RECURSIVE heappush(_, _)
heappush(heap, e) ==
    IF heap = <<>> THEN <<e>>
    ELSE IF EntryLess(e, Head(heap)) THEN <<e>> \o heap
    ELSE <<Head(heap)>> \o heappush(Tail(heap), e)

RECURSIVE heapify(_)
heapify(list) == IF list = <<>> THEN <<>> ELSE heappush(heapify(Tail(list)), Head(list))

(* ------------------------------- state -------------------------------- *)
VARIABLES
    items,            \* self.items: name -> [quantity, price]
    low_stock_heap,   \* self.low_stock_heap
    threshold,        \* self.threshold
    db_items,         \* committed rows of table items: name -> [quantity, price]
    db_settings,      \* committed value of settings['low_stock_threshold']
    call,             \* the last completed call: [op, name, result]
    ret,              \* the list the last read returned
    latest,           \* history: the items added and not deleted, with the values
                      \* of their most recent successful add or update
    faults,           \* history: how many store calls have raised
    prev,             \* history: the call before the last one, when it was
                      \* set_threshold or get_low_stock_items
    pc,               \* per request thread: the statement it is about to execute
    req,              \* per request thread: the call it serves and its result
    loc,              \* per request thread: local variables of the running method
    db_lock,          \* SQLite's write lock: the thread with an open write transaction, or 0
    served            \* how many requests the threads have taken up

vars == <<items, low_stock_heap, threshold, db_items, db_settings, call, ret, latest, faults, prev,
          pc, req, loc, db_lock, served>>
shared == <<items, low_stock_heap, threshold, db_items, db_settings>>
seq_vars == <<call, ret, latest, faults, prev>>
thread_vars == <<pc, req, loc, db_lock, served>>

Record(q, p) == [quantity |-> q, price |-> p]
Records == {Record(q, p) : q \in Quantities, p \in Prices}
Tables == UNION {[S -> Records] : S \in SUBSET Names}

(* dict / table updates *)
Put(d, name, rec) == [n \in DOMAIN d \cup {name} |-> IF n = name THEN rec ELSE d[n]]
Del(d, name) == [n \in DOMAIN d \ {name} |-> d[n]]

(* The names of a dict in iteration order; the heap built from them does   *)
(* not depend on the order, so one fixed order is used.                    *)
RECURSIVE KeyList(_)
KeyList(S) ==
    IF S = {} THEN <<>>
    ELSE LET n == CHOOSE x \in S : \A y \in S : x = y \/ StrLess(x, y)
         IN  <<n>> \o KeyList(S \ {n})

(* _rebuild_heap: the loop over self.items.items() pushing onto heap *)
RECURSIVE PushLow(_, _, _, _)
PushLow(keys, d, th, heap) ==
    IF keys = <<>> THEN heap
    ELSE PushLow(Tail(keys), d, th,
                 IF d[Head(keys)].quantity < th
                 THEN heappush(heap, <<d[Head(keys)].quantity, Head(keys)>>)
                 ELSE heap)

(* a faulty variant: the rebuild compares against the default threshold *)
rebuild_heap_default(d, th) == PushLow(KeyList(DOMAIN d), d, DefaultThreshold, <<>>)

rebuild_heap(d, th) == PushLow(KeyList(DOMAIN d), d, th, <<>>)

(* load_items: the values of self.items, self.threshold, self.low_stock_heap *)
load_items(rows, setting) ==
    LET th == int(setting)
        d  == [n \in DOMAIN rows |-> Record(rows[n].quantity, rows[n].price)]
    IN  [items |-> d, threshold |-> th,
         low_stock_heap |-> PushLow(KeyList(DOMAIN rows), rows, th, <<>>)]

(* get_all_items / search_items build the same dicts *)
Item(d, name) == [name |-> name, quantity |-> d[name].quantity, price |-> d[name].price]

RECURSIVE ItemList(_, _)
ItemList(keys, d) ==
    IF keys = <<>> THEN <<>> ELSE <<Item(d, Head(keys))>> \o ItemList(Tail(keys), d)

all_items(d) == ItemList(KeyList(DOMAIN d), d)

(* str.lower() on the names used here: "A".."Z" map to "a".."z" *)
lower(s) == [i \in 1..Len(s) |-> IF s[i] \in 65..90 THEN s[i] + 32 ELSE s[i]]

(* Python's `sub in s` on strings *)
isin(sub, s) == \E i \in 0..(Len(s) - Len(sub)) : SubSeq(s, i + 1, i + Len(sub)) = sub

(* search_items: the loop over self.items.items() *)
RECURSIVE search(_, _, _)
search(keys, d, query_lower) ==
    IF keys = <<>> THEN <<>>
    ELSE (IF isin(query_lower, lower(Head(keys))) THEN <<Item(d, Head(keys))>> ELSE <<>>)
            \o search(Tail(keys), d, query_lower)

(* get_low_stock_items: the while loop; returns low_stock and temp_heap *)
RECURSIVE drain(_, _, _, _, _)
drain(heap, d, th, low_stock, temp_heap) ==
    IF heap = <<>> THEN [low_stock |-> low_stock, temp_heap |-> temp_heap]
    ELSE LET name == Head(heap)[2]
         IN  IF name \in DOMAIN d /\ d[name].quantity < th
             THEN drain(Tail(heap), d, th,
                        Append(low_stock, Item(d, name)),
                        Append(temp_heap, <<d[name].quantity, name>>))
             ELSE drain(Tail(heap), d, th, low_stock, temp_heap)

Threads == 1..NumThreads
NoRequest == [op |-> "none", name |-> None, quantity |-> None, price |-> None,
              value |-> None, result |-> "none"]
NoLocals == [low_stock |-> <<>>, temp_heap |-> <<>>, seen |-> {}, size |-> 0]

(* ------------------------------ Init ---------------------------------- *)
(* InventoryManager(): init_db leaves whatever an earlier run stored, then  *)
(* load_items reads it.                                                     *)
Init ==
    /\ db_items \in Tables
    /\ db_settings \in {str(t) : t \in Thresholds}
    /\ LET l == load_items(db_items, db_settings)
       IN  /\ items = l.items
           /\ threshold = l.threshold
           /\ low_stock_heap = l.low_stock_heap
    /\ call = [op |-> "load_items", name |-> None, result |-> "ok"]
    /\ ret = <<>>
    /\ latest = db_items
    /\ faults = 0
    /\ prev = [op |-> "other", result |-> "ok"]
    /\ pc = [t \in Threads |-> "idle"]
    /\ req = [t \in Threads |-> NoRequest]
    /\ loc = [t \in Threads |-> NoLocals]
    /\ db_lock = 0
    /\ served = 0

(* A store call that raises something other than IntegrityError *)
Faults == {"none", "raise"}
UpdateFaults == {"none", "connect", "execute_quantity", "execute_price", "commit"}

Done(op, name, result) ==
    /\ call' = [op |-> op, name |-> name, result |-> result]
    /\ faults' = IF result = "StoreError" THEN faults + 1 ELSE faults
    /\ prev' = IF call.op \in {"set_threshold", "get_low_stock_items"}
               THEN [op |-> call.op, result |-> call.result]
               ELSE [op |-> "other", result |-> "ok"]

(* ---------------- requests served one at a time ----------------------- *)
(* a faulty variant: the new item is pushed whatever its quantity *)
add_item_push_always(name, quantity, price, fault) ==
    IF name \in DOMAIN items
    THEN /\ Done("add_item", Some(name), "AlreadyExists")
         /\ ret' = <<>>
         /\ UNCHANGED <<items, low_stock_heap, threshold, db_items, db_settings, latest>>
    ELSE IF name \in DOMAIN db_items
    THEN /\ Done("add_item", Some(name), "AlreadyExists")
         /\ ret' = <<>>
         /\ UNCHANGED <<items, low_stock_heap, threshold, db_items, db_settings, latest>>
    ELSE IF fault # "none"
    THEN /\ Done("add_item", Some(name), "StoreError")
         /\ ret' = <<>>
         /\ UNCHANGED <<items, low_stock_heap, threshold, db_items, db_settings, latest>>
    ELSE /\ db_items' = Put(db_items, name, Record(quantity, price))
         /\ items' = Put(items, name, Record(quantity, price))
         /\ low_stock_heap' = heappush(low_stock_heap, <<quantity, name>>)
         /\ latest' = Put(latest, name, Record(quantity, price))
         /\ Done("add_item", Some(name), "ok")
         /\ ret' = <<>>
         /\ UNCHANGED <<threshold, db_settings>>
add_item(name, quantity, price, fault) ==
    IF name \in DOMAIN items
    THEN /\ Done("add_item", Some(name), "AlreadyExists")
         /\ ret' = <<>>
         /\ UNCHANGED <<items, low_stock_heap, threshold, db_items, db_settings, latest>>
    ELSE IF name \in DOMAIN db_items
    THEN /\ Done("add_item", Some(name), "AlreadyExists")       \* IntegrityError
         /\ ret' = <<>>
         /\ UNCHANGED <<items, low_stock_heap, threshold, db_items, db_settings, latest>>
    ELSE IF fault # "none"                      \* connect, execute or commit raises
    THEN /\ Done("add_item", Some(name), "StoreError")
         /\ ret' = <<>>
         /\ UNCHANGED <<items, low_stock_heap, threshold, db_items, db_settings, latest>>
    ELSE /\ db_items' = Put(db_items, name, Record(quantity, price))
         /\ items' = Put(items, name, Record(quantity, price))
         /\ low_stock_heap' = IF quantity < threshold
                              THEN heappush(low_stock_heap, <<quantity, name>>)
                              ELSE low_stock_heap
         /\ latest' = Put(latest, name, Record(quantity, price))
         /\ Done("add_item", Some(name), "ok")
         /\ ret' = <<>>
         /\ UNCHANGED <<threshold, db_settings>>

(* the two optional assignments of update_item, on a dict or on a table row *)
SetQuantity(d, name, quantity) ==
    IF quantity = None THEN d ELSE [d EXCEPT ![name].quantity = quantity[1]]
(* a faulty variant: the price is written even when none was provided *)
SetPrice_always(d, name, price) ==
    [d EXCEPT ![name].price = IF price = None THEN 1 ELSE price[1]]
SetPrice(d, name, price) ==
    IF price = None THEN d ELSE [d EXCEPT ![name].price = price[1]]

update_item(name, quantity, price, fault) ==
    IF name \notin DOMAIN items
    THEN /\ Done("update_item", Some(name), "NotFound")
         /\ ret' = <<>>
         /\ UNCHANGED <<items, low_stock_heap, threshold, db_items, db_settings, latest>>
    ELSE IF fault = "connect"
    THEN /\ Done("update_item", Some(name), "StoreError")
         /\ ret' = <<>>
         /\ UNCHANGED <<items, low_stock_heap, threshold, db_items, db_settings, latest>>
    ELSE IF fault = "execute_quantity" /\ quantity # None
    THEN /\ items' = SetQuantity(items, name, quantity)          \* line 103 ran
         /\ Done("update_item", Some(name), "StoreError")
         /\ ret' = <<>>
         /\ UNCHANGED <<low_stock_heap, threshold, db_items, db_settings, latest>>
    ELSE IF (fault = "execute_price" /\ price # None) \/ fault = "commit"
    THEN /\ items' = SetPrice(SetQuantity(items, name, quantity), name, price)
         /\ Done("update_item", Some(name), "StoreError")
         /\ ret' = <<>>
         /\ UNCHANGED <<low_stock_heap, threshold, db_items, db_settings, latest>>
    ELSE /\ items' = SetPrice(SetQuantity(items, name, quantity), name, price)
         /\ db_items' = IF name \in DOMAIN db_items       \* UPDATE ... WHERE name = ?
                        THEN SetPrice(SetQuantity(db_items, name, quantity), name, price)
                        ELSE db_items
         /\ low_stock_heap' = rebuild_heap(items', threshold)
         /\ latest' = SetPrice(SetQuantity(latest, name, quantity), name, price)
         /\ Done("update_item", Some(name), "ok")
         /\ ret' = <<>>
         /\ UNCHANGED <<threshold, db_settings>>

(* a faulty variant: no membership check before the delete *)
delete_item_unchecked(name, fault) ==
    /\ db_items' = Del(db_items, name)
    /\ items' = Del(items, name)
    /\ low_stock_heap' = rebuild_heap(items', threshold)
    /\ latest' = Del(latest, name)
    /\ Done("delete_item", Some(name), "ok")
    /\ ret' = <<>>
    /\ UNCHANGED <<threshold, db_settings>>

(* a faulty variant: the entry leaves self.items before the store call *)
delete_item_early(name, fault) ==
    IF name \notin DOMAIN items
    THEN /\ Done("delete_item", Some(name), "NotFound")
         /\ ret' = <<>>
         /\ UNCHANGED <<items, low_stock_heap, threshold, db_items, db_settings, latest>>
    ELSE IF fault # "none"
    THEN /\ items' = Del(items, name)
         /\ Done("delete_item", Some(name), "StoreError")
         /\ ret' = <<>>
         /\ UNCHANGED <<low_stock_heap, threshold, db_items, db_settings, latest>>
    ELSE /\ db_items' = Del(db_items, name)
         /\ items' = Del(items, name)
         /\ low_stock_heap' = rebuild_heap(items', threshold)
         /\ latest' = Del(latest, name)
         /\ Done("delete_item", Some(name), "ok")
         /\ ret' = <<>>
         /\ UNCHANGED <<threshold, db_settings>>

delete_item(name, fault) ==
    IF name \notin DOMAIN items
    THEN /\ Done("delete_item", Some(name), "NotFound")
         /\ ret' = <<>>
         /\ UNCHANGED <<items, low_stock_heap, threshold, db_items, db_settings, latest>>
    ELSE IF fault # "none"
    THEN /\ Done("delete_item", Some(name), "StoreError")
         /\ ret' = <<>>
         /\ UNCHANGED <<items, low_stock_heap, threshold, db_items, db_settings, latest>>
    ELSE /\ db_items' = Del(db_items, name)
         /\ items' = Del(items, name)
         /\ low_stock_heap' = rebuild_heap(items', threshold)
         /\ latest' = Del(latest, name)
         /\ Done("delete_item", Some(name), "ok")
         /\ ret' = <<>>
         /\ UNCHANGED <<threshold, db_settings>>

(* a faulty variant: the heap is not rebuilt for the new threshold *)
set_threshold_no_rebuild(value, fault) ==
    /\ threshold' = value
    /\ IF fault # "none"
       THEN /\ Done("set_threshold", None, "StoreError")
            /\ UNCHANGED <<low_stock_heap, db_settings>>
       ELSE /\ db_settings' = str(value)
            /\ Done("set_threshold", None, "ok")
            /\ UNCHANGED low_stock_heap
    /\ ret' = <<>>
    /\ UNCHANGED <<items, db_items, latest>>
set_threshold(value, fault) ==
    /\ threshold' = value                                        \* line 176
    /\ IF fault # "none"
       THEN /\ Done("set_threshold", None, "StoreError")
            /\ UNCHANGED <<low_stock_heap, db_settings>>
       ELSE /\ db_settings' = str(value)
            /\ low_stock_heap' = rebuild_heap(items, threshold')
            /\ Done("set_threshold", None, "ok")
    /\ ret' = <<>>
    /\ UNCHANGED <<items, db_items, latest>>

get_all_items ==
    /\ ret' = all_items(items)
    /\ Done("get_all_items", None, "ok")
    /\ UNCHANGED <<items, low_stock_heap, threshold, db_items, db_settings, latest>>

(* a faulty variant: the heap is not put back after the drain *)
get_low_stock_items_consume ==
    LET r == drain(low_stock_heap, items, threshold, <<>>, <<>>)
    IN  /\ low_stock_heap' = <<>>
        /\ ret' = r.low_stock
        /\ Done("get_low_stock_items", None, "ok")
        /\ UNCHANGED <<items, threshold, db_items, db_settings, latest>>
get_low_stock_items ==
    LET r == drain(low_stock_heap, items, threshold, <<>>, <<>>)
    IN  /\ low_stock_heap' = heapify(r.temp_heap)
        /\ ret' = r.low_stock
        /\ Done("get_low_stock_items", None, "ok")
        /\ UNCHANGED <<items, threshold, db_items, db_settings, latest>>

(* a faulty variant: the query is compared as typed, only the name lowered *)
search_items_as_typed(query) ==
    /\ ret' = search(KeyList(DOMAIN items), items, query)
    /\ Done("search_items", Some(query), "ok")
    /\ UNCHANGED <<items, low_stock_heap, threshold, db_items, db_settings, latest>>
search_items(query) ==
    /\ ret' = search(KeyList(DOMAIN items), items, lower(query))
    /\ Done("search_items", Some(query), "ok")
    /\ UNCHANGED <<items, low_stock_heap, threshold, db_items, db_settings, latest>>

(* the store calls of update_item(name, quantity, price) that can raise *)
FaultsOf(quantity, price) ==
    {"none", "connect", "commit"}
        \cup (IF quantity = None THEN {} ELSE {"execute_quantity"})
        \cup (IF price = None THEN {} ELSE {"execute_price"})

(* at most MaxFaults store calls raise in one run *)
MayRaise(F) == IF faults < MaxFaults THEN F ELSE {"none"}

Requests(F, UF) ==
    \/ \E name \in Names, quantity \in Quantities, price \in Prices, fault \in MayRaise(F) :
          add_item(name, quantity, price, fault)
    \/ \E name \in Names, quantity \in OptQuantities, price \in OptPrices :
          \E fault \in MayRaise(UF \cap FaultsOf(quantity, price)) :
             update_item(name, quantity, price, fault)
    \/ \E name \in Names, fault \in MayRaise(F) : delete_item(name, fault)
    \/ \E value \in Thresholds, fault \in MayRaise(F) : set_threshold(value, fault)
    \/ get_all_items
    \/ get_low_stock_items
    \/ \E query \in Queries : search_items(query)

Next == Requests(Faults, UpdateFaults) /\ UNCHANGED thread_vars
Spec == Init /\ [][Next]_vars

NextOk == Requests({"none"}, {"none"}) /\ UNCHANGED thread_vars
SpecOk == Init /\ [][NextOk]_vars

(* ---------------- requests served by concurrent threads --------------- *)
(* No method of InventoryManager takes a lock and the handlers call the     *)
(* shared instance `inventory` directly, so the statements of two requests  *)
(* interleave.  One step is one statement that reads or writes shared       *)
(* state; a store write blocks while another connection holds SQLite's      *)
(* write lock.  get_all_items is taken as one step.                         *)
Goto(t, label) == pc' = [pc EXCEPT ![t] = label]
Finish(t, result) ==
    /\ pc' = [pc EXCEPT ![t] = "done"]
    /\ req' = [req EXCEPT ![t].result = result]
(* an exception leaves the method: the connection is dropped, its open     *)
(* transaction rolled back                                                  *)
Raise(t, error) ==
    /\ Finish(t, error)
    /\ db_lock' = IF db_lock = t THEN 0 ELSE db_lock
Locked(t) == db_lock' = t
CanWrite(t) == db_lock = 0 \/ db_lock = t

(* a request arrives: the handler calls the method *)
handler(t, r) ==
    /\ pc[t] = "idle"
    /\ served < MaxRequests
    /\ served' = served + 1
    /\ req' = [req EXCEPT ![t] = r]
    /\ Goto(t, r.op)
    /\ UNCHANGED <<shared, loc, db_lock>>

(* the handler returns the response *)
respond(t) ==
    /\ pc[t] = "done"
    /\ UNCHANGED served
    /\ Goto(t, "idle")
    /\ req' = [req EXCEPT ![t] = NoRequest]
    /\ loc' = [loc EXCEPT ![t] = NoLocals]
    /\ UNCHANGED <<shared, db_lock>>

(* a faulty variant: an existing name is overwritten before the rejection *)
add_check_overwrite(t) ==
    /\ pc[t] = "add_item"
    /\ UNCHANGED served
    /\ IF req[t].name[1] \in DOMAIN items
       THEN /\ Finish(t, "AlreadyExists")
            /\ items' = Put(items, req[t].name[1],
                            Record(req[t].quantity[1], req[t].price[1]))
       ELSE Goto(t, "add_insert") /\ UNCHANGED <<req, items>>
    /\ UNCHANGED <<low_stock_heap, threshold, db_items, db_settings, loc, db_lock>>

(* add_item, line 71 *)
add_check(t) ==
    /\ pc[t] = "add_item"
    /\ UNCHANGED served
    /\ IF req[t].name[1] \in DOMAIN items
       THEN Finish(t, "AlreadyExists")
       ELSE Goto(t, "add_insert") /\ UNCHANGED req
    /\ UNCHANGED <<shared, loc, db_lock>>

(* add_item, lines 77 and 91-93 *)
add_insert(t) ==
    /\ pc[t] = "add_insert"
    /\ UNCHANGED served
    /\ CanWrite(t)
    /\ IF req[t].name[1] \in DOMAIN db_items
       THEN Finish(t, "AlreadyExists") /\ UNCHANGED db_lock      \* IntegrityError
       ELSE Goto(t, "add_commit") /\ Locked(t) /\ UNCHANGED req
    /\ UNCHANGED <<shared, loc>>

(* add_item, lines 79-80 *)
add_commit(t) ==
    /\ pc[t] = "add_commit"
    /\ UNCHANGED served
    /\ db_items' = Put(db_items, req[t].name[1], Record(req[t].quantity[1], req[t].price[1]))
    /\ db_lock' = 0
    /\ Goto(t, "add_set")
    /\ UNCHANGED <<items, low_stock_heap, threshold, db_settings, req, loc>>

(* add_item, lines 82-85 *)
add_set(t) ==
    /\ pc[t] = "add_set"
    /\ UNCHANGED served
    /\ items' = Put(items, req[t].name[1], Record(req[t].quantity[1], req[t].price[1]))
    /\ Goto(t, "add_push")
    /\ UNCHANGED <<low_stock_heap, threshold, db_items, db_settings, req, loc, db_lock>>

(* add_item, lines 87-90 *)
add_push(t) ==
    /\ pc[t] = "add_push"
    /\ UNCHANGED served
    /\ low_stock_heap' = IF req[t].quantity[1] < threshold
                         THEN heappush(low_stock_heap, <<req[t].quantity[1], req[t].name[1]>>)
                         ELSE low_stock_heap
    /\ Finish(t, "ok")
    /\ UNCHANGED <<items, threshold, db_items, db_settings, loc, db_lock>>

(* update_item, line 96 *)
update_check(t) ==
    /\ pc[t] = "update_item"
    /\ UNCHANGED served
    /\ IF req[t].name[1] \notin DOMAIN items
       THEN Finish(t, "NotFound")
       ELSE Goto(t, "update_set_quantity") /\ UNCHANGED req
    /\ UNCHANGED <<shared, loc, db_lock>>

(* update_item, lines 102-103 *)
update_set_quantity(t) ==
    /\ pc[t] = "update_set_quantity"
    /\ UNCHANGED served
    /\ IF req[t].quantity = None
       THEN Goto(t, "update_set_price") /\ UNCHANGED <<items, req, db_lock>>
       ELSE IF req[t].name[1] \notin DOMAIN items
       THEN Raise(t, "KeyError") /\ UNCHANGED items
       ELSE /\ items' = SetQuantity(items, req[t].name[1], req[t].quantity)
            /\ Goto(t, "update_execute_quantity")
            /\ UNCHANGED <<req, db_lock>>
    /\ UNCHANGED <<low_stock_heap, threshold, db_items, db_settings, loc>>

(* update_item, line 104 *)
update_execute_quantity(t) ==
    /\ pc[t] = "update_execute_quantity"
    /\ UNCHANGED served
    /\ CanWrite(t)
    /\ Locked(t)
    /\ Goto(t, "update_set_price")
    /\ UNCHANGED <<shared, req, loc>>

(* update_item, lines 107-108 *)
update_set_price(t) ==
    /\ pc[t] = "update_set_price"
    /\ UNCHANGED served
    /\ IF req[t].price = None
       THEN Goto(t, "update_commit") /\ UNCHANGED <<items, req, db_lock>>
       ELSE IF req[t].name[1] \notin DOMAIN items
       THEN Raise(t, "KeyError") /\ UNCHANGED items
       ELSE /\ items' = SetPrice(items, req[t].name[1], req[t].price)
            /\ Goto(t, "update_execute_price")
            /\ UNCHANGED <<req, db_lock>>
    /\ UNCHANGED <<low_stock_heap, threshold, db_items, db_settings, loc>>

(* update_item, line 109 *)
update_execute_price(t) ==
    /\ pc[t] = "update_execute_price"
    /\ UNCHANGED served
    /\ CanWrite(t)
    /\ Locked(t)
    /\ Goto(t, "update_commit")
    /\ UNCHANGED <<shared, req, loc>>

(* update_item, lines 112-113, then the call of line 115 *)
update_commit(t) ==
    /\ pc[t] = "update_commit"
    /\ UNCHANGED served
    /\ db_items' = IF req[t].name[1] \in DOMAIN db_items
                   THEN SetPrice(SetQuantity(db_items, req[t].name[1], req[t].quantity),
                                 req[t].name[1], req[t].price)
                   ELSE db_items
    /\ db_lock' = IF db_lock = t THEN 0 ELSE db_lock
    /\ Goto(t, "rebuild_clear")
    /\ UNCHANGED <<items, low_stock_heap, threshold, db_settings, req, loc>>

(* delete_item, line 120 *)
delete_check(t) ==
    /\ pc[t] = "delete_item"
    /\ UNCHANGED served
    /\ IF req[t].name[1] \notin DOMAIN items
       THEN Finish(t, "NotFound")
       ELSE Goto(t, "delete_execute") /\ UNCHANGED req
    /\ UNCHANGED <<shared, loc, db_lock>>

(* delete_item, line 125 *)
delete_execute(t) ==
    /\ pc[t] = "delete_execute"
    /\ UNCHANGED served
    /\ CanWrite(t)
    /\ Locked(t)
    /\ Goto(t, "delete_commit")
    /\ UNCHANGED <<shared, req, loc>>

(* delete_item, lines 126-127 *)
delete_commit(t) ==
    /\ pc[t] = "delete_commit"
    /\ UNCHANGED served
    /\ db_items' = Del(db_items, req[t].name[1])
    /\ db_lock' = 0
    /\ Goto(t, "delete_del")
    /\ UNCHANGED <<items, low_stock_heap, threshold, db_settings, req, loc>>

(* delete_item, line 129, then the call of line 130 *)
delete_del(t) ==
    /\ pc[t] = "delete_del"
    /\ UNCHANGED served
    /\ IF req[t].name[1] \notin DOMAIN items
       THEN Raise(t, "KeyError") /\ UNCHANGED items
       ELSE /\ items' = Del(items, req[t].name[1])
            /\ Goto(t, "rebuild_clear")
            /\ UNCHANGED <<req, db_lock>>
    /\ UNCHANGED <<low_stock_heap, threshold, db_items, db_settings, loc>>

(* set_threshold, line 176 *)
threshold_assign(t) ==
    /\ pc[t] = "set_threshold"
    /\ UNCHANGED served
    /\ threshold' = req[t].value[1]
    /\ Goto(t, "threshold_execute")
    /\ UNCHANGED <<items, low_stock_heap, db_items, db_settings, req, loc, db_lock>>

(* set_threshold, line 179 *)
threshold_execute(t) ==
    /\ pc[t] = "threshold_execute"
    /\ UNCHANGED served
    /\ CanWrite(t)
    /\ Locked(t)
    /\ Goto(t, "threshold_commit")
    /\ UNCHANGED <<shared, req, loc>>

(* set_threshold, lines 181-182, then the call of line 183 *)
threshold_commit(t) ==
    /\ pc[t] = "threshold_commit"
    /\ UNCHANGED served
    /\ db_settings' = str(req[t].value[1])
    /\ db_lock' = 0
    /\ Goto(t, "rebuild_clear")
    /\ UNCHANGED <<items, low_stock_heap, threshold, db_items, req, loc>>

(* _rebuild_heap, line 186 and the iterator of line 187 *)
rebuild_clear(t) ==
    /\ pc[t] = "rebuild_clear"
    /\ UNCHANGED served
    /\ low_stock_heap' = <<>>
    /\ loc' = [loc EXCEPT ![t].seen = {}, ![t].size = Cardinality(DOMAIN items)]
    /\ Goto(t, "rebuild_next")
    /\ UNCHANGED <<items, threshold, db_items, db_settings, req, db_lock>>

(* _rebuild_heap, one turn of the loop of lines 187-189: the dict iterator  *)
(* raises RuntimeError when the dict changed size since the loop began      *)
rebuild_next(t) ==
    /\ pc[t] = "rebuild_next"
    /\ UNCHANGED served
    /\ LET rest == KeyList(DOMAIN items \ loc[t].seen)
       IN  IF Cardinality(DOMAIN items) # loc[t].size
           THEN Raise(t, "RuntimeError") /\ UNCHANGED <<low_stock_heap, loc>>
           ELSE IF rest = <<>>
           THEN Finish(t, "ok") /\ UNCHANGED <<low_stock_heap, loc, db_lock>>
           ELSE /\ low_stock_heap' =
                      IF items[Head(rest)].quantity < threshold
                      THEN heappush(low_stock_heap, <<items[Head(rest)].quantity, Head(rest)>>)
                      ELSE low_stock_heap
                /\ loc' = [loc EXCEPT ![t].seen = @ \cup {Head(rest)}]
                /\ UNCHANGED <<pc, req, db_lock>>
    /\ UNCHANGED <<items, threshold, db_items, db_settings>>

(* get_all_items, lines 135-142 *)
all_read(t) ==
    /\ pc[t] = "get_all_items"
    /\ UNCHANGED served
    /\ loc' = [loc EXCEPT ![t].low_stock = all_items(items)]
    /\ Finish(t, "ok")
    /\ UNCHANGED <<shared, db_lock>>

(* get_low_stock_items, one turn of the loop of lines 148-156 *)
low_stock_pop(t) ==
    /\ pc[t] = "get_low_stock_items"
    /\ UNCHANGED served
    /\ IF low_stock_heap = <<>>
       THEN Goto(t, "low_stock_assign") /\ UNCHANGED <<low_stock_heap, loc>>
       ELSE LET name == Head(low_stock_heap)[2]
            IN  /\ low_stock_heap' = Tail(low_stock_heap)
                /\ loc' = IF name \in DOMAIN items /\ items[name].quantity < threshold
                          THEN [loc EXCEPT
                                  ![t].low_stock = Append(@, Item(items, name)),
                                  ![t].temp_heap = Append(@, <<items[name].quantity, name>>)]
                          ELSE loc
                /\ UNCHANGED pc
    /\ UNCHANGED <<items, threshold, db_items, db_settings, req, db_lock>>

(* get_low_stock_items, lines 158-161 *)
low_stock_assign(t) ==
    /\ pc[t] = "low_stock_assign"
    /\ UNCHANGED served
    /\ low_stock_heap' = heapify(loc[t].temp_heap)
    /\ Finish(t, "ok")
    /\ UNCHANGED <<items, threshold, db_items, db_settings, loc, db_lock>>

Request(op, name, quantity, price, value) ==
    [op |-> op, name |-> name, quantity |-> quantity, price |-> price,
     value |-> value, result |-> "none"]
(* the threads draw quantities and prices from smaller sets *)
ThreadQuantities == {DefaultThreshold - QtySpread, DefaultThreshold}
ThreadPrices == {1}
RequestSet ==
    {Request("add_item", Some(n), Some(q), Some(p), None) :
        n \in Names, q \in ThreadQuantities, p \in ThreadPrices}
    \cup {Request("update_item", Some(n), q, p, None) :
        n \in Names, q \in {None} \cup {Some(x) : x \in ThreadQuantities},
        p \in {None} \cup {Some(x) : x \in ThreadPrices}}
    \cup {Request("delete_item", Some(n), None, None, None) : n \in Names}
    \cup {Request("set_threshold", None, None, None, Some(v)) : v \in Thresholds}
    \cup {Request("get_all_items", None, None, None, None),
          Request("get_low_stock_items", None, None, None, None)}

ThreadNext ==
    \/ \E t \in Threads, r \in RequestSet : handler(t, r) /\ UNCHANGED seq_vars
    \/ \E t \in Threads : respond(t) /\ UNCHANGED seq_vars
    \/ \E t \in Threads : add_check(t) /\ UNCHANGED seq_vars
    \/ \E t \in Threads : add_insert(t) /\ UNCHANGED seq_vars
    \/ \E t \in Threads : add_commit(t) /\ UNCHANGED seq_vars
    \/ \E t \in Threads : add_set(t) /\ UNCHANGED seq_vars
    \/ \E t \in Threads : add_push(t) /\ UNCHANGED seq_vars
    \/ \E t \in Threads : update_check(t) /\ UNCHANGED seq_vars
    \/ \E t \in Threads : update_set_quantity(t) /\ UNCHANGED seq_vars
    \/ \E t \in Threads : update_execute_quantity(t) /\ UNCHANGED seq_vars
    \/ \E t \in Threads : update_set_price(t) /\ UNCHANGED seq_vars
    \/ \E t \in Threads : update_execute_price(t) /\ UNCHANGED seq_vars
    \/ \E t \in Threads : update_commit(t) /\ UNCHANGED seq_vars
    \/ \E t \in Threads : delete_check(t) /\ UNCHANGED seq_vars
    \/ \E t \in Threads : delete_execute(t) /\ UNCHANGED seq_vars
    \/ \E t \in Threads : delete_commit(t) /\ UNCHANGED seq_vars
    \/ \E t \in Threads : delete_del(t) /\ UNCHANGED seq_vars
    \/ \E t \in Threads : threshold_assign(t) /\ UNCHANGED seq_vars
    \/ \E t \in Threads : threshold_execute(t) /\ UNCHANGED seq_vars
    \/ \E t \in Threads : threshold_commit(t) /\ UNCHANGED seq_vars
    \/ \E t \in Threads : rebuild_clear(t) /\ UNCHANGED seq_vars
    \/ \E t \in Threads : rebuild_next(t) /\ UNCHANGED seq_vars
    \/ \E t \in Threads : all_read(t) /\ UNCHANGED seq_vars
    \/ \E t \in Threads : low_stock_pop(t) /\ UNCHANGED seq_vars
    \/ \E t \in Threads : low_stock_assign(t) /\ UNCHANGED seq_vars

(* a fresh database: init_db creates the tables and the default setting *)
FreshInit == Init /\ db_items = <<>> /\ db_settings = str(DefaultThreshold)
ThreadSpec == FreshInit /\ [][ThreadNext]_vars

(* ============================== claims ================================ *)
Range(list) == {list[i] : i \in 1..Len(list)}
NoRepeat(list) == \A i, j \in 1..Len(list) : list[i].name = list[j].name => i = j
MutatingOps == {"add_item", "update_item", "delete_item", "set_threshold"}
LowStockNames == {n \in DOMAIN items : items[n].quantity < threshold}

(* C1: after each call, listAll() returns exactly the items added and not  *)
(* since deleted, each with the quantity and price of its most recent      *)
(* successful add or update.                                               *)
C1_ListAllIsLatest ==
    call.op = "get_all_items" =>
        /\ Range(ret) = {Item(latest, n) : n \in DOMAIN latest}
        /\ NoRepeat(ret)

(* C2: listLowStock() returns exactly the items whose live quantity is     *)
(* strictly below the current threshold, with live quantity and price.     *)
C2_LowStockIsExact ==
    call.op = "get_low_stock_items" =>
        /\ Range(ret) = {Item(items, n) : n \in LowStockNames}
        /\ NoRepeat(ret)

(* C3: a call whose store call raises leaves InMemoryIndex and             *)
(* LowStockIndex exactly as they were before the call.                     *)
C3_FailedWriteLeavesMemory ==
    [][faults' = faults + 1 => (items' = items /\ low_stock_heap' = low_stock_heap)]_vars

(* C4: while one mutation is between its first step and the end of its     *)
(* heap reconciliation, no step of another mutation executes.              *)
InMutation(t) == req[t].op \in MutatingOps /\ pc[t] \notin {"idle", "done"}
MidMutation(t) == InMutation(t) /\ pc[t] # req[t].op
Steps(t) == pc'[t] # pc[t] \/ loc'[t] # loc[t]
C4_MutationsDoNotInterleave ==
    [][\A t \in Threads : \A u \in Threads \ {t} :
          MidMutation(t) => ~(InMutation(u) /\ Steps(u))]_vars

(* C5: no read (listAll, listLowStock) executes in a state where the store *)
(* and InMemoryIndex disagree about the items or their quantity or price.  *)
ReadOps == {"get_all_items", "get_low_stock_items"}
C5_ReadsSeeStoreAndIndexAgree ==
    [][\A t \in Threads :
          (req[t].op \in ReadOps /\ pc[t] \notin {"idle", "done"} /\ Steps(t))
              => items = db_items]_vars

(* C6: addItem on a name already present (in InMemoryIndex, or rejected by *)
(* the store's uniqueness constraint) returns AlreadyExists, and no        *)
(* statement it executed changed the store, InMemoryIndex, the threshold   *)
(* or LowStockIndex.                                                       *)
AddRejectPoints == {"add_item", "add_insert"}
C6_AddExistingChangesNothing ==
    [][\A t \in Threads :
          /\ (req[t].op = "add_item" /\ pc[t] \in AddRejectPoints /\ Steps(t))
                => UNCHANGED shared
          /\ (req[t].op = "add_item" /\ pc[t] # "done" /\ pc'[t] = "done"
                /\ req'[t].result = "AlreadyExists")
                => pc[t] \in AddRejectPoints
          /\ (pc[t] = "add_item" /\ Steps(t) /\ req[t].name[1] \in DOMAIN items)
                => (pc'[t] = "done" /\ req'[t].result = "AlreadyExists")
          /\ (pc[t] = "add_insert" /\ Steps(t) /\ req[t].name[1] \in DOMAIN db_items)
                => (pc'[t] = "done" /\ req'[t].result = "AlreadyExists")]_vars
(* a thread was rejected by the store: the name is in the store and not    *)
(* (yet) in InMemoryIndex                                                  *)
C6_Witness ==
    \E t \in Threads :
        /\ pc[t] = "done" /\ req[t].op = "add_item" /\ req[t].result = "AlreadyExists"
        /\ req[t].name[1] \in DOMAIN db_items \ DOMAIN items

(* C7: updateItem and deleteItem on a name that is not present return      *)
(* NotFound and leave the store, InMemoryIndex, the threshold and          *)
(* LowStockIndex unchanged.                                                *)
C7_MissingNameChangesNothing ==
    [][(call'.op \in {"update_item", "delete_item"} /\ call'.name[1] \notin DOMAIN items)
          => (call'.result = "NotFound" /\ UNCHANGED shared)]_vars
C7_Witness ==
    /\ call.op = "delete_item" /\ call.result = "NotFound"
    /\ items # <<>> /\ low_stock_heap # <<>>

(* C8: after load and after every completed call, successful, rejected or  *)
(* failed in the store, the keys of InMemoryIndex are the names in the     *)
(* store.                                                                  *)
C8_KeysAreStoreNames == DOMAIN items = DOMAIN db_items
C8_Witness ==
    /\ call.op = "delete_item" /\ call.result = "StoreError"
    /\ DOMAIN items = Names

(* C9: with no store failure, after load and after every completed call,   *)
(* every item whose live quantity is below the threshold has at least one  *)
(* entry with its name in LowStockIndex.                                   *)
C9_NoFalseNegative ==
    \A n \in LowStockNames : \E i \in 1..Len(low_stock_heap) : low_stock_heap[i][2] = n
C9_Witness ==
    /\ call.op = "add_item" /\ call.result = "ok"
    /\ LowStockNames = Names

(* C10: within each mutating operation the store write succeeds first,     *)
(* then the in-memory value is changed, then LowStockIndex is reconciled.  *)
AfterCommit == {"add_set", "delete_del"}
AfterMemory == {"add_push", "rebuild_clear", "rebuild_next"}
C10_StoreThenMemoryThenHeap ==
    [][\A t \in Threads :
          (InMutation(t) /\ Steps(t)) =>
              /\ (items' # items \/ threshold' # threshold) => pc[t] \in AfterCommit
              /\ low_stock_heap' # low_stock_heap => pc[t] \in AfterMemory]_vars

C12_LowStockAscending ==
    call.op = "get_low_stock_items" =>
        \A i, j \in 1..Len(ret) :
            i < j => EntryLess(<<ret[i].quantity, ret[i].name>>,
                               <<ret[j].quantity, ret[j].name>>)

(* C13: setThreshold(v) changes no item record, in InMemoryIndex or in the *)
(* store, and the listLowStock() that follows a completed setThreshold(v)  *)
(* returns exactly the items whose quantity is below v, v being the value  *)
(* now persisted: an item not below the old threshold but below v is       *)
(* returned, an item not below v is not.                                   *)
C13_ThresholdFrameAndView ==
    [][/\ call'.op = "set_threshold" => (items' = items /\ db_items' = db_items)
       /\ (call.op = "set_threshold" /\ call.result = "ok"
              /\ call'.op = "get_low_stock_items")
            => /\ Range(ret') = {Item(items, n) :
                                   n \in {m \in DOMAIN items :
                                            items[m].quantity < int(db_settings)}}
               /\ NoRepeat(ret')]_vars
C13_Witness ==
    /\ prev = [op |-> "set_threshold", result |-> "ok"]
    /\ call.op = "get_low_stock_items"
    /\ threshold = DefaultThreshold + 1
    /\ \E i \in 1..Len(ret) : ret[i].quantity = DefaultThreshold
    /\ \E n \in DOMAIN items : items[n].quantity >= threshold

(* C14: an updateItem that succeeds changes only the provided fields of    *)
(* the named item: the other field, the other items, the set of names and  *)
(* the threshold are unchanged, in InMemoryIndex and in the store.         *)
Field(d, n, f) == IF n \in DOMAIN d THEN Some(d[n][f]) ELSE None
OnlyProvided(d, e, n, f, arg) ==
    Field(e, n, f) = IF arg = None \/ n \notin DOMAIN d THEN Field(d, n, f) ELSE arg
C14_UpdateChangesOnlyProvided ==
    [][\A name \in Names, quantity \in OptQuantities, price \in OptPrices :
          (name \in DOMAIN items /\ update_item(name, quantity, price, "none"))
            => /\ call'.result = "ok"
               /\ DOMAIN items' = DOMAIN items /\ DOMAIN db_items' = DOMAIN db_items
               /\ \A m \in DOMAIN items \ {name} : items'[m] = items[m]
               /\ \A m \in DOMAIN db_items \ {name} : db_items'[m] = db_items[m]
               /\ OnlyProvided(items, items', name, "quantity", quantity)
               /\ OnlyProvided(items, items', name, "price", price)
               /\ OnlyProvided(db_items, db_items', name, "quantity", quantity)
               /\ OnlyProvided(db_items, db_items', name, "price", price)
               /\ threshold' = threshold /\ db_settings' = db_settings]_vars
C14_Witness ==
    /\ call = [op |-> "update_item", name |-> Some(NameList[1]), result |-> "ok"]
    /\ DOMAIN items = Names /\ DOMAIN db_items = Names
    /\ items[NameList[1]] = [quantity |-> DefaultThreshold - 1, price |-> MaxPrice]
    /\ items[NameList[2]] = [quantity |-> DefaultThreshold + 1, price |-> 1]

(* C15: after load, and whenever no call is in progress (after any         *)
(* sequence of calls, rejected and store-failed ones included), loading    *)
(* again from the store would give the InMemoryIndex contents and the      *)
(* threshold that are in memory now.                                       *)
C15_ReloadReproducesMemory ==
    LET l == load_items(db_items, db_settings)
    IN  l.items = items /\ l.threshold = threshold

(* C16: search(s) returns exactly the items whose name contains s as a     *)
(* substring, letter case ignored; search("") returns every item; search   *)
(* changes neither InMemoryIndex, LowStockIndex, the threshold nor the     *)
(* store.                                                                  *)
SameLetter(a, b) ==
    a = b \/ (a \in 65..90 /\ b = a + 32) \/ (b \in 65..90 /\ a = b + 32)
ContainsIgnoringCase(s, name) ==
    \E off \in 0..(Len(name) - Len(s)) :
        \A k \in 1..Len(s) : SameLetter(name[off + k], s[k])
C16_SearchIsSubstringMatch ==
    [][call'.op = "search_items" =>
          LET s == call'.name[1]
          IN  /\ Range(ret') = {Item(items, n) :
                                  n \in {m \in DOMAIN items : ContainsIgnoringCase(s, m)}}
              /\ NoRepeat(ret')
              /\ s = <<>> => Len(ret') = Cardinality(DOMAIN items)
              /\ UNCHANGED shared]_vars
C16_Witness ==
    /\ call = [op |-> "search_items", name |-> Some(<<78, 85>>), result |-> "ok"]
    /\ DOMAIN items = Names
    /\ Len(ret) = 1 /\ ret[1].name = NameList[2]

(* C17: whatever LowStockIndex holds, the drain of listLowStock() accepts  *)
(* an extracted entry (q, n) only if n is in InMemoryIndex, the live       *)
(* quantity of n equals q and is below the threshold; so no item is        *)
(* returned twice and afterwards the structure holds exactly the accepted  *)
(* entries, no two of them with the same name.                             *)
ValidEntry(e) ==
    /\ e[2] \in DOMAIN items
    /\ items[e[2]].quantity = e[1]
    /\ e[1] < threshold
C17_DrainKeepsOnlyValidEntries ==
    [][call'.op = "get_low_stock_items" =>
          LET valid == {e \in Range(low_stock_heap) : ValidEntry(e)}
          IN  /\ Range(ret') = {Item(items, e[2]) : e \in valid}
              /\ NoRepeat(ret')
              /\ Range(low_stock_heap') = valid
              /\ \A i, j \in 1..Len(low_stock_heap') :
                    low_stock_heap'[i][2] = low_stock_heap'[j][2] => i = j]_vars

(* C18: once every request in flight has finished, every item below the    *)
(* threshold has an entry in LowStockIndex and the next listLowStock()     *)
(* returns it, whatever drains, rebuilds and pushes overlapped before.     *)
Quiescent == \A t \in Threads : pc[t] \in {"idle", "done"}
C18_NoEntryLostByOverlap ==
    Quiescent =>
        \A n \in LowStockNames :
            /\ \E i \in 1..Len(low_stock_heap) : low_stock_heap[i][2] = n
            /\ Item(items, n) \in
                  Range(drain(low_stock_heap, items, threshold, <<>>, <<>>).low_stock)

(* C19: with addItem, updateItem and deleteItem on one name running        *)
(* concurrently, once all of them have returned or raised the keys of      *)
(* InMemoryIndex are the names in the store.                               *)
C19_KeysAgreeAfterOverlap ==
    Quiescent => DOMAIN items = DOMAIN db_items

(* C20: with calls one at a time and no store failure, after load and      *)
(* after every completed call LowStockIndex holds exactly one entry (q, n) *)
(* for each item n whose live quantity q is below the threshold and no     *)
(* other entry; after addItem its contents are those a full rebuild gives. *)
C20_HeapIsExactlyLowStock ==
    /\ Range(low_stock_heap) = {<<items[n].quantity, n>> : n \in LowStockNames}
    /\ Len(low_stock_heap) = Cardinality(LowStockNames)
    /\ call.op = "add_item" => low_stock_heap = rebuild_heap(items, threshold)
C20_Witness ==
    /\ call.op = "add_item" /\ call.result = "ok"
    /\ LowStockNames # {} /\ DOMAIN items \ LowStockNames # {}
    /\ Len(low_stock_heap) = 1

====
